---- MODULE Spec2Model ----
(***************************************************************************)
(* A model of croxz_bridge.py: the filename sanitizer, the format          *)
(* reconciler (merge_video_audio_formats), the record transformer and the  *)
(* command dispatch around the external extraction tool.                    *)
(*                                                                         *)
(* Text is a sequence of characters.  A character is a string: an ASCII    *)
(* character is written as itself, any other code point by its name        *)
(* ("U+00E9").  Python's None / an absent dictionary key is the value None *)
(* for text-valued fields and NoneNum for number-valued fields.            *)
(***************************************************************************)
EXTENDS Integers, Sequences, FiniteSets, TLC

VARIABLES
    pc,          \* which function has run: "input" before, its name after
    title,       \* sanitize_filename: the title argument
    max_length,  \* sanitize_filename: the max_length argument
    clean,       \* sanitize_filename: the returned string
    data,        \* transform_single / merge_video_audio_formats: the raw record
    reconciled,  \* merge_video_audio_formats: the returned list
    record,      \* transform_single: the returned record
    argv,        \* main: sys.argv
    tool,        \* main: what the external tool does when it is run
    stdout,      \* main: the JSON values printed so far
    exit_code    \* main: the process exit code

vars == <<pc, title, max_length, clean, data, reconciled, record,
          argv, tool, stdout, exit_code>>

None == "<None>"
NoneNum == -1

\* An absent key and a JSON null, for the text-valued keys where the code
\* tells them apart (a text is a sequence, so they are sequences too).
NoText == <<"<None>">>
NullText == <<"<null>">>

\* Python truthiness of an optional string / number / text.
Truthy(s) == s # None /\ s # ""
TruthyNum(n) == n # NoneNum /\ n # 0
TruthyText(t) == t # NoText /\ t # NullText /\ t # <<>>

PlaylistText == <<"P", "l", "a", "y", "l", "i", "s", "t">>
UnknownText == <<"U", "n", "k", "n", "o", "w", "n">>
UnknownTitleText == <<"U", "n", "k", "n", "o", "w", "n", " ", "T", "i", "t", "l", "e">>

(***************************************************************************)
(* Bounds of the model.                                                    *)
(***************************************************************************)
MaxTitleLen == 3
MaxLenArg == 4
MaxFormats == 3
MaxLines == 3

(***************************************************************************)
(* sanitize_filename                                                       *)
(***************************************************************************)
NonAscii == {"U+00E9", "U+0301", "U+0131", "U+4E2D", "U+00A9", "U+2026"}

\* The characters titles are drawn from: a letter, the three trimmed
\* characters, an invalid character, two control characters (the tab, which
\* is also whitespace, and U+0001, which is not), and five
\* non-ASCII code points (e acute, dotless i, a CJK ideograph, the copyright
\* sign, the horizontal ellipsis).
TitleChars == {"a", " ", "_", ".", "/", "\t", "U+0001",
               "U+00E9", "U+0131", "U+4E2D", "U+00A9", "U+2026"}

\* unicodedata.normalize('NFKD', .) on one code point.
NFKDChar(c) ==
    CASE c = "U+00E9" -> <<"e", "U+0301">>
      [] c = "U+2026" -> <<".", ".", ".">>
      [] OTHER -> <<c>>

RECURSIVE NFKD(_)
NFKD(s) == IF s = <<>> THEN <<>> ELSE NFKDChar(Head(s)) \o NFKD(Tail(s))

\* .encode('ascii', 'ignore').decode('ascii')
EncodeAsciiIgnore(s) == SelectSeq(s, LAMBDA c : c \notin NonAscii)

\* The entries of the replacements table whose key is a modelled character.
ReplaceChar(c) ==
    CASE c = "U+0131" -> <<"i">>
      [] c = "U+00E9" -> <<"e">>
      [] c = "U+2026" -> <<".", ".", ".">>
      [] c = "U+00A9" -> <<"(", "c", ")">>
      [] OTHER -> <<c>>

\* temp.replace(old, new) for every entry of the table.
RECURSIVE ApplyReplacements(_)
ApplyReplacements(s) ==
    IF s = <<>> THEN <<>> ELSE ReplaceChar(Head(s)) \o ApplyReplacements(Tail(s))

\* The ASCII text of a title, with the retry through the replacements table
\* when less than 30% of the character count is left.  3 * Len / 10 in
\* integers agrees with the floating-point len(title) * 0.3 for every length
\* below 10.
AsciiText(t) ==
    LET first == EncodeAsciiIgnore(NFKD(t))
    IN  IF 10 * Len(first) < 3 * Len(t)
        THEN EncodeAsciiIgnore(NFKD(ApplyReplacements(t)))
        ELSE first

\* The character class [\\/:*?"<>|\x00-\x1f]
InvalidChars == {"\\", "/", ":", "*", "?", "\"", "<", ">", "|",
                 "\t", "\n", "\r", "U+0001"}
RemoveInvalidNoControl(s) ==
    SelectSeq(s, LAMBDA c : c \notin (InvalidChars \ {"\t", "\n", "\r", "U+0001"}))
RemoveInvalid(s) == SelectSeq(s, LAMBDA c : c \notin InvalidChars)

\* re.sub(r'[\s_]+', '_', .)
SpaceOrUnderscore == {" ", "_", "\t", "\n", "\r"}
RECURSIVE CollapseRuns(_)
CollapseRuns(s) ==
    IF s = <<>> THEN <<>>
    ELSE IF Head(s) \in SpaceOrUnderscore
         THEN IF Len(s) > 1 /\ s[2] \in SpaceOrUnderscore
              THEN CollapseRuns(Tail(s))
              ELSE <<"_">> \o CollapseRuns(Tail(s))
         ELSE <<Head(s)>> \o CollapseRuns(Tail(s))

RECURSIVE LStrip(_, _)
LStrip(s, chars) ==
    IF s # <<>> /\ Head(s) \in chars THEN LStrip(Tail(s), chars) ELSE s

RECURSIVE RStrip(_, _)
RStrip(s, chars) ==
    IF s # <<>> /\ s[Len(s)] \in chars
    THEN RStrip(SubSeq(s, 1, Len(s) - 1), chars)
    ELSE s

Strip(s, chars) == RStrip(LStrip(s, chars), chars)

\* The slice s[:n], n negative counting from the end.
SliceNoCut(s, n) == s
Slice(s, n) ==
    IF n >= 0
    THEN SubSeq(s, 1, IF n < Len(s) THEN n ELSE Len(s))
    ELSE SubSeq(s, 1, IF Len(s) + n > 0 THEN Len(s) + n ELSE 0)

Download == <<"d", "o", "w", "n", "l", "o", "a", "d">>

\* The string between the leading/trailing strip and the length limit.
Stripped(t) == Strip(CollapseRuns(RemoveInvalid(AsciiText(t))), {"_", ".", " "})

Truncated(t, n) ==
    LET c == Stripped(t)
    IN  IF Len(c) > n THEN RStrip(Slice(c, n), {"_"}) ELSE c

sanitize_filename(t, n) ==
    IF t = <<>> THEN Download
    ELSE LET c == Truncated(t, n)
         IN  IF c = <<>> THEN Download ELSE c

DefaultMaxLength == 200

(***************************************************************************)
(* Formats.  A raw format is a record with one field per dictionary key    *)
(* the code reads; None / NoneNum stands for an absent key.  The three     *)
(* last fields are the keys merge_video_audio_formats adds.                *)
(***************************************************************************)
RawFormat(url, ext, vcodec, acodec, height, tbr, abr, fps, audio_ext) ==
    [url |-> url, ext |-> ext, vcodec |-> vcodec, acodec |-> acodec,
     height |-> height, tbr |-> tbr, abr |-> abr, fps |-> fps,
     audio_ext |-> audio_ext, preference |-> NoneNum,
     _audio_url |-> None, _needs_merge |-> FALSE, _video_only |-> FALSE]

has_video(fmt) == Truthy(fmt.vcodec) /\ fmt.vcodec # "none"

has_audio(fmt) == Truthy(fmt.acodec) /\ fmt.acodec # "none"

is_combined_format(fmt) == has_video(fmt) /\ has_audio(fmt)

safe_int(value, default) == IF value = NoneNum THEN default ELSE value

get_format_quality_score_no_ext(fmt) ==
    (IF is_combined_format(fmt) THEN 100000 ELSE 0)
    + safe_int(fmt.height, 0) * 10
    + safe_int(fmt.tbr, 0)
    + (IF safe_int(fmt.fps, 0) >= 60 THEN 200
       ELSE IF safe_int(fmt.fps, 0) >= 30 THEN 100 ELSE 0)

get_format_quality_score(fmt) ==
    (IF is_combined_format(fmt) THEN 100000 ELSE 0)
    + safe_int(fmt.height, 0) * 10
    + safe_int(fmt.tbr, 0)
    + (IF fmt.ext = "mp4" THEN 500 ELSE IF fmt.ext = "webm" THEN 100 ELSE 0)
    + (IF safe_int(fmt.fps, 0) >= 60 THEN 200
       ELSE IF safe_int(fmt.fps, 0) >= 30 THEN 100 ELSE 0)

\* list.sort(key=..., reverse=True) on a list of <<key, value>> pairs: a
\* stable sort, so equal keys keep their order.
RECURSIVE InsertDesc(_, _)
InsertDesc(p, sorted) ==
    IF sorted = <<>> THEN <<p>>
    ELSE IF Head(sorted)[1] > p[1]
         THEN <<Head(sorted)>> \o InsertDesc(p, Tail(sorted))
         ELSE <<p>> \o sorted

RECURSIVE SortPairsDesc(_)
SortPairsDesc(ps) ==
    IF ps = <<>> THEN <<>> ELSE InsertDesc(Head(ps), SortPairsDesc(Tail(ps)))

Values(ps) == [i \in 1..Len(ps) |-> ps[i][2]]

\* The key audio_only is sorted by: x.get("abr") or x.get("tbr") or 0
AudioSortKeyAbrOnly(x) == IF TruthyNum(x.abr) THEN x.abr ELSE 0
AudioSortKey(x) ==
    IF TruthyNum(x.abr) THEN x.abr
    ELSE IF TruthyNum(x.tbr) THEN x.tbr ELSE 0

SortAudio(audio_only) ==
    Values(SortPairsDesc([i \in 1..Len(audio_only) |->
                            <<AudioSortKey(audio_only[i]), audio_only[i]>>]))

SortByScoreUnsorted(result) == result
SortByScore(result) ==
    Values(SortPairsDesc([i \in 1..Len(result) |->
                            <<get_format_quality_score(result[i]), result[i]>>]))

\* Lines 439-452: the formats that are not skipped.
Usable(fmt) ==
    /\ Truthy(fmt.url)
    /\ ~(fmt.ext = "mhtml" \/ fmt.vcodec = "images")

Combined(formats) ==
    SelectSeq(formats, LAMBDA f : Usable(f) /\ is_combined_format(f))
VideoOnly(formats) ==
    SelectSeq(formats, LAMBDA f : Usable(f) /\ ~is_combined_format(f) /\ has_video(f))
AudioOnly(formats) ==
    SelectSeq(formats, LAMBDA f : Usable(f) /\ ~is_combined_format(f)
                                   /\ ~has_video(f) /\ has_audio(f))

\* audio_only[0] after the sort; read only when audio_only is not empty.
BestAudio(formats) == SortAudio(AudioOnly(formats))[1]

\* Lines 469-478: a video-only format with the best audio's data laid over.
Merged(vfmt, best_audio) ==
    [vfmt EXCEPT !.acodec = best_audio.acodec,
                 !.abr = best_audio.abr,
                 !.audio_ext = IF best_audio.ext = None THEN "m4a" ELSE best_audio.ext,
                 !._audio_url = best_audio.url,
                 !._needs_merge = TRUE]

MergedFormats(formats) ==
    LET video_only == VideoOnly(formats)
    IN  IF video_only # <<>> /\ AudioOnly(formats) # <<>>
        THEN [i \in 1..Len(video_only) |->
                Merged(video_only[i], BestAudio(formats))]
        ELSE <<>>

\* Lines 482-487: the video-only formats as a fallback.
VideoOnlyFallbackAlways(result, video_only) ==
    [i \in 1..Len(video_only) |-> [video_only[i] EXCEPT !._video_only = TRUE]]
VideoOnlyFallback(result, video_only) ==
    IF result = <<>> /\ video_only # <<>>
    THEN [i \in 1..Len(video_only) |-> [video_only[i] EXCEPT !._video_only = TRUE]]
    ELSE <<>>

\* Lines 490-493: the audio-only formats, in the sorted order when the sort
\* has run, with their preference lowered.
AudioCopies(formats) ==
    LET audio_only == IF VideoOnly(formats) # <<>>
                      THEN SortAudio(AudioOnly(formats))
                      ELSE AudioOnly(formats)
    IN  [i \in 1..Len(audio_only) |->
            [audio_only[i] EXCEPT !.preference = safe_int(@, 0) - 50]]

\* The list result when it is sorted by quality score (line 496).
Candidates(formats) ==
    LET paired == Combined(formats) \o MergedFormats(formats)
    IN  paired \o VideoOnlyFallback(paired, VideoOnly(formats))
               \o AudioCopies(formats)

\* Lines 508-515: what the deduplication loop reads of a format.
DedupHeight(fmt) == IF TruthyNum(fmt.height) THEN fmt.height ELSE 0
CarriesAudio(fmt) == has_audio(fmt) \/ Truthy(fmt.audio_ext)

\* Lines 503-531: the loop over the sorted list, from position i on.
RECURSIVE Dedup(_, _, _, _, _)
Dedup(result, i, seen_resolutions, video_formats, best_audio) ==
    IF i > Len(result)
    THEN video_formats \o best_audio
    ELSE LET fmt == result[i]
         IN  IF has_video(fmt)
             THEN IF CarriesAudio(fmt) /\ DedupHeight(fmt) \notin seen_resolutions
                  THEN Dedup(result, i + 1,
                             seen_resolutions \cup {DedupHeight(fmt)},
                             Append(video_formats, fmt), best_audio)
                  ELSE Dedup(result, i + 1, seen_resolutions,
                             video_formats, best_audio)
             ELSE IF has_audio(fmt) /\ best_audio = <<>>
                  THEN Dedup(result, i + 1, seen_resolutions,
                             video_formats, <<fmt>>)
                  ELSE Dedup(result, i + 1, seen_resolutions,
                             video_formats, best_audio)

merge_video_audio_formats(formats) ==
    Dedup(SortByScore(Candidates(formats)), 1, {}, <<>>, <<>>)

(***************************************************************************)
(* transform_format and transform_single.  A transformed format is a       *)
(* record holding exactly the keys the code sets.                          *)
(***************************************************************************)
Join(parts, sep) ==
    LET RECURSIVE J(_)
        J(ps) == IF ps = <<>> THEN <<>>
                 ELSE IF Len(ps) = 1 THEN Head(ps)
                 ELSE Head(ps) \o sep \o J(Tail(ps))
    IN  J(parts)

\* Lines 675-694: the description shown to the user, as a list of words.
FormatDescription(fmt) ==
    LET has_v == has_video(fmt)
        has_a == has_audio(fmt)
        ext == IF fmt.ext = None THEN "mp4" ELSE fmt.ext
        parts ==
            (IF has_v /\ TruthyNum(fmt.height)
             THEN <<ToString(fmt.height) \o "p">> ELSE <<>>)
            \o (IF has_v /\ safe_int(fmt.fps, 0) >= 60
                THEN <<ToString(fmt.fps) \o "fps">> ELSE <<>>)
            \o (IF (has_a \/ Truthy(fmt.audio_ext)) /\ safe_int(fmt.abr, 0) > 0
                THEN <<ToString(fmt.abr) \o "kbps">> ELSE <<>>)
    IN  IF parts = <<>> THEN <<>> ELSE parts \o <<"(" \o ext \o ")">>

\* Lines 697-703: the suggested file name.
FormatFilename(fmt, clean_title, video_id) ==
    Join(<<clean_title>>
         \o (IF TruthyNum(fmt.height)
             THEN <<<<ToString(fmt.height) \o "p">>>> ELSE <<>>)
         \o (IF Truthy(video_id) THEN <<<<"[" \o video_id \o "]">>>> ELSE <<>>),
         <<"_">>)

\* The raw formats of the model carry no protocol, filesize, quality, width,
\* language, http_headers or fragments key, and the video id is short.
transform_format(fmt, clean_title, video_id) ==
    LET has_v == has_video(fmt)
        has_a == has_audio(fmt)
        ext == IF fmt.ext = None THEN "mp4" ELSE fmt.ext
        base == [url |-> fmt.url, protocol |-> "https", ext |-> ext,
                 filesize |-> NoneNum, quality |-> 0,
                 preference |-> safe_int(fmt.preference, 0),
                 tbr |-> fmt.tbr]
        video == IF has_v
                 THEN [video_ext |-> ext, vcodec |-> fmt.vcodec,
                       height |-> fmt.height, width |-> NoneNum,
                       fps |-> fmt.fps]
                 ELSE <<>>
        audio == IF has_a
                 THEN [audio_ext |-> IF has_v \/ fmt.audio_ext = None
                                     THEN ext ELSE fmt.audio_ext,
                       acodec |-> fmt.acodec, abr |-> fmt.abr]
                 ELSE IF Truthy(fmt.audio_ext)
                 THEN [audio_ext |-> fmt.audio_ext,
                       acodec |-> IF fmt.acodec = None THEN "aac" ELSE fmt.acodec,
                       abr |-> fmt.abr]
                 ELSE <<>>
        descr == IF FormatDescription(fmt) = <<>> THEN <<>>
                 ELSE [format |-> FormatDescription(fmt)]
        fname == IF clean_title # <<>>
                 THEN [_filename |-> FormatFilename(fmt, clean_title, video_id)]
                 ELSE <<>>
    IN  fname @@ descr @@ audio @@ video @@ base

\* dict.get(key) on a transformed format.
GetText(f, key) == IF key \in DOMAIN f THEN f[key] ELSE None

\* Lines 571-584: the filter over the transformed formats.
KeptByFilter(f) ==
    LET has_v == Truthy(GetText(f, "vcodec")) /\ GetText(f, "vcodec") # "none"
        has_a == Truthy(GetText(f, "acodec")) /\ GetText(f, "acodec") # "none"
    IN  \/ has_v /\ has_a
        \/ ~has_v /\ has_a
        \/ Truthy(GetText(f, "audio_ext"))
        \/ "_video_only" \in DOMAIN f /\ f["_video_only"] = TRUE

\* The record seen as a format (formats = [data], line 561).
AsFormat(d) ==
    [url |-> d.url, ext |-> d.ext, vcodec |-> d.vcodec, acodec |-> d.acodec,
     height |-> d.height, tbr |-> d.tbr, abr |-> d.abr, fps |-> d.fps,
     audio_ext |-> d.audio_ext, preference |-> d.preference,
     _audio_url |-> None, _needs_merge |-> FALSE, _video_only |-> FALSE]

\* Lines 559-561.
FormatsOf(d) ==
    IF d.formats = <<>> /\ Truthy(d.url) THEN <<AsFormat(d)>> ELSE d.formats

\* Lines 727-746.  The entries of the model are never null.
transform_playlist_info(d) ==
    [_type |-> "playlist",
     id |-> IF d.id = None THEN "" ELSE d.id,
     title |-> IF d.title = NoText THEN PlaylistText ELSE d.title,
     webpage_url |-> IF d.webpage_url = None THEN "" ELSE d.webpage_url,
     entries |-> [i \in 1..Len(d.entries) |->
                    [_type |-> "url",
                     url |-> IF d.entries[i].url # None THEN d.entries[i].url
                             ELSE IF d.entries[i].webpage_url # None
                                  THEN d.entries[i].webpage_url ELSE "",
                     title |-> IF d.entries[i].title = NoText
                               THEN UnknownText ELSE d.entries[i].title,
                     duration |-> NoneNum]]]

\* Lines 534-614.  version is what check_ytdlp_version() returns.  The raw
\* records of the model carry no duration, upload_date, subtitles or
\* thumbnails key.
transform_single(d, version) ==
    IF d._type = "playlist" THEN transform_playlist_info(d)
    ELSE
    LET original_title == IF d.title = NoText
                          THEN UnknownTitleText ELSE d.title
        clean_title == sanitize_filename(original_title, DefaultMaxLength)
        video_id == IF d.id = None THEN "" ELSE d.id
        processed == merge_video_audio_formats(FormatsOf(d))
        all_formats == [i \in 1..Len(processed) |->
                            transform_format(processed[i], clean_title, video_id)]
        filtered == SelectSeq(all_formats, KeptByFilter)
        formats == IF filtered # <<>> THEN filtered ELSE all_formats
        result == [id |-> video_id,
                   title |-> clean_title,
                   original_title |-> original_title,
                   webpage_url |-> IF d.webpage_url # None THEN d.webpage_url
                                   ELSE IF d.url # None THEN d.url ELSE "",
                   duration |-> NoneNum,
                   formats |-> formats,
                   subtitles |-> <<>>,
                   thumbnails |-> <<>>]
    IN  IF formats = <<>>
        THEN [_error |-> "No downloadable formats found",
              _ytdlp_version |-> version,
              _hint |-> "Try updating yt-dlp: yt-dlp -U"] @@ result
        ELSE result

(***************************************************************************)
(* Inputs of the reconciler and of transform_single.                       *)
(***************************************************************************)
Heights == {360, 720}

\* Raw formats without their url: "u" stands for the url the position gives.
VideoOnlyShapes ==
    {RawFormat("u", ext, "avc1", "none", h, NoneNum, NoneNum, NoneNum, None) :
        ext \in {"mp4", "webm"}, h \in Heights}
    \cup {RawFormat("u", "webm", "vp9", "none", h, 1000, NoneNum, NoneNum, None) :
            h \in Heights}
    \cup {RawFormat("u", "mp4", "avc1", "none", 360, NoneNum, NoneNum, NoneNum, "none")}

CombinedShapes ==
    {RawFormat("u", ext, "avc1", "mp4a", h, NoneNum, NoneNum, NoneNum, None) :
        ext \in {"mp4", "webm"}, h \in Heights}
    \cup {RawFormat("u", "webm", "vp9", "opus", 720, NoneNum, NoneNum, 60, None)}

AudioOnlyShapes ==
    {RawFormat("u", "m4a", "none", "mp4a", NoneNum, NoneNum, 128, NoneNum, None),
     RawFormat("u", "m4a", "none", "mp4a", NoneNum, 256, NoneNum, NoneNum, None),
     RawFormat("u", "m4a", None, "mp4a", NoneNum, 256, 0, NoneNum, None)}

\* A storyboard, a format with no codec at all and a format without url.
SkippedShapes ==
    {RawFormat("u", "mhtml", "images", "none", 360, NoneNum, NoneNum, NoneNum, None),
     RawFormat("u", "mp4", "none", "none", NoneNum, NoneNum, NoneNum, NoneNum, None),
     RawFormat(None, "mp4", "avc1", "none", 360, NoneNum, NoneNum, NoneNum, None)}

Shapes == VideoOnlyShapes \cup CombinedShapes \cup AudioOnlyShapes \cup SkippedShapes

\* The i-th format of a list has the url "u<i>", unless it has none.
WithUrls(shapes) ==
    [i \in 1..Len(shapes) |->
        IF shapes[i].url = None THEN shapes[i]
        ELSE [shapes[i] EXCEPT !.url = "u" \o ToString(i)]]

RawLists == {WithUrls(s) : s \in UNION {[1..n -> Shapes] : n \in 0..MaxFormats}}

SampleTitle == <<"a", " ", "U+00E9">>

\* A raw record of one item, with an explicit formats list.
RecordWithFormats(formats) ==
    [_type |-> None, id |-> "id1", title |-> SampleTitle,
     webpage_url |-> "page", formats |-> formats, entries |-> <<>>,
     playlist_title |-> NoText, playlist |-> NoText]
    @@ RawFormat(None, None, None, None, NoneNum, NoneNum, NoneNum, NoneNum, None)

\* A raw record of one item without formats list: its own keys describe the
\* one stream.
RecordWithoutFormats(shape) ==
    [_type |-> None, id |-> "id1", title |-> SampleTitle,
     webpage_url |-> "page", formats |-> <<>>, entries |-> <<>>,
     playlist_title |-> NoText, playlist |-> NoText]
    @@ [shape EXCEPT !.url = IF @ = None THEN None ELSE "u0"]

RawRecords ==
    {RecordWithFormats(fs) : fs \in RawLists}
    \cup {RecordWithoutFormats(s) : s \in Shapes}

Versions == {None, "2024.08.06"}

IdleData == RecordWithFormats(<<>>)
IdleTool == [found |-> FALSE, timeout |-> FALSE, returncode |-> 0,
             lines |-> <<>>, stderr |-> ""]

Init ==
    /\ pc = "input"
    /\ data \in RawRecords
    /\ reconciled = <<>>
    /\ record = <<>>
    /\ title = <<>>
    /\ max_length = DefaultMaxLength
    /\ clean = <<>>
    /\ argv = <<>>
    /\ tool = IdleTool
    /\ stdout = <<>>
    /\ exit_code = NoneNum

\* A call of merge_video_audio_formats on the record's formats.
MergeVideoAudioFormats ==
    /\ pc = "input"
    /\ reconciled' = merge_video_audio_formats(data.formats)
    /\ pc' = "merge_video_audio_formats"
    /\ UNCHANGED <<title, max_length, clean, data, record,
                   argv, tool, stdout, exit_code>>

\* A call of transform_single on the record.
TransformSingle ==
    /\ pc = "input"
    /\ \E version \in Versions : record' = transform_single(data, version)
    /\ pc' = "transform_single"
    /\ UNCHANGED <<title, max_length, clean, data, reconciled,
                   argv, tool, stdout, exit_code>>

Next == MergeVideoAudioFormats \/ TransformSingle

Spec == Init /\ [][Next]_vars

Reconciled == pc = "merge_video_audio_formats"
Transformed == pc = "transform_single"

\* The members of a list.
Range(s) == {s[i] : i \in 1..Len(s)}

\* Some usable raw format has audio.
HasAnyAudio(formats) ==
    \E f \in Range(formats) : Usable(f) /\ has_audio(f)

\* An entry of the reconciler's output made from a video-only raw format.
FromVideoOnly(e, formats) ==
    has_video(e) /\ e \notin Range(Combined(formats))

\* C1: every returned format with a real video codec carries audio, its own
\* (a combined raw format) or the merged companion (the merge flag with the
\* paired audio url), unless no usable raw format has any audio.
C1_VideoCarriesAudio ==
    (Reconciled /\ HasAnyAudio(data.formats)) =>
        \A e \in Range(reconciled) :
            has_video(e) =>
                \/ e \in Range(Combined(data.formats)) /\ has_audio(e)
                \/ e._needs_merge /\ Truthy(e._audio_url) /\ has_audio(e)

\* A returned list holding a combined format and a merged one.
C1_Witness ==
    /\ Reconciled
    /\ \E e \in Range(reconciled) : has_video(e) /\ e._needs_merge
    /\ \E e \in Range(reconciled) : has_video(e) /\ ~e._needs_merge

\* The bitrate C2 as stated ranks the audio-only formats by: the audio
\* bitrate, the total bitrate when the audio bitrate is absent.
AbrOrTbrWhenAbsent(x) ==
    IF x.abr # NoneNum THEN x.abr ELSE IF x.tbr # NoneNum THEN x.tbr ELSE 0

\* The bitrate C2 as amended ranks them by: the audio bitrate, the total
\* bitrate when the audio bitrate is absent or zero.
AbrOrTbrWhenAbsentOrZero(x) ==
    IF x.abr # NoneNum /\ x.abr # 0 THEN x.abr
    ELSE IF x.tbr # NoneNum THEN x.tbr ELSE 0

\* Every returned entry made from a video-only format keeps that format's
\* url and video data, has the merge flag, and is paired with the url of audio
\* format a.
PairedWith(a, formats, out) ==
    \A e \in Range(out) :
        FromVideoOnly(e, formats) =>
            /\ e._needs_merge
            /\ e._audio_url = a.url
            /\ \E v \in Range(VideoOnly(formats)) :
                /\ e.url = v.url
                /\ e.vcodec = v.vcodec /\ e.height = v.height /\ e.ext = v.ext

\* C2 as stated: with a video-only and an audio-only format among the usable
\* formats, all merged entries are paired with one audio-only format of
\* greatest audio bitrate (total bitrate when the audio bitrate is absent).
C2_PairedWithGreatestAbr ==
    (Reconciled /\ VideoOnly(data.formats) # <<>> /\ AudioOnly(data.formats) # <<>>) =>
        \E a \in Range(AudioOnly(data.formats)) :
            /\ \A b \in Range(AudioOnly(data.formats)) :
                    AbrOrTbrWhenAbsent(a) >= AbrOrTbrWhenAbsent(b)
            /\ PairedWith(a, data.formats, reconciled)

\* C2 as amended: the same, the total bitrate standing in when the audio
\* bitrate is absent or zero.
C2_PairedWithGreatestBitrate ==
    (Reconciled /\ VideoOnly(data.formats) # <<>> /\ AudioOnly(data.formats) # <<>>) =>
        \E a \in Range(AudioOnly(data.formats)) :
            /\ \A b \in Range(AudioOnly(data.formats)) :
                    AbrOrTbrWhenAbsentOrZero(a) >= AbrOrTbrWhenAbsentOrZero(b)
            /\ PairedWith(a, data.formats, reconciled)

\* A merged entry paired with the better of two audio-only formats, the
\* better one coming second in the input.
C2_Witness ==
    /\ Reconciled
    /\ \E e \in Range(reconciled) : e._needs_merge
    /\ Len(AudioOnly(data.formats)) = 2
    /\ AbrOrTbrWhenAbsentOrZero(AudioOnly(data.formats)[1])
         < AbrOrTbrWhenAbsentOrZero(AudioOnly(data.formats)[2])
    /\ \A e \in Range(reconciled) :
         e._needs_merge => e._audio_url = AudioOnly(data.formats)[2].url

\* C3: in the record transform_single returns, every format the reconciler
\* made by pairing a video-only stream with an audio-only stream still has
\* the merge flag and the paired audio url.
C3_MergeFlagKept ==
    (Transformed /\ data._type # "playlist") =>
        \A e \in Range(merge_video_audio_formats(FormatsOf(data))) :
            e._needs_merge =>
                \E f \in Range(record.formats) :
                    /\ f.url = e.url
                    /\ "_needs_merge" \in DOMAIN f /\ f["_needs_merge"] = TRUE
                    /\ "_audio_url" \in DOMAIN f /\ f["_audio_url"] = e._audio_url

\* The candidates of the deduplication that have video and carry audio.
AudioVideoCandidates(formats) ==
    {c \in Range(Candidates(formats)) : has_video(c) /\ CarriesAudio(c)}

\* c and d are equal but for the container, c's being mp4 and d's webm (and
\* for the url, which names the stream).
TwinsMp4Webm(c, d) ==
    /\ c.ext = "mp4" /\ d.ext = "webm"
    /\ [c EXCEPT !.ext = "webm", !.url = d.url] = d

\* C4: for every height among the audio-carrying video candidates exactly
\* one format of that height is returned, a candidate of the highest quality
\* score at that height; of two such candidates differing only in container
\* the webm one is never the one returned.
C4_BestPerHeight ==
    Reconciled =>
        LET cands == AudioVideoCandidates(data.formats)
            kept == {e \in Range(reconciled) : has_video(e)}
        IN  /\ \A c \in cands :
                \E e \in kept :
                    /\ DedupHeight(e) = DedupHeight(c)
                    /\ e \in cands
                    /\ get_format_quality_score(e) >= get_format_quality_score(c)
                    /\ \A e2 \in kept : DedupHeight(e2) = DedupHeight(e) => e2 = e
            /\ \A c, d \in cands : TwinsMp4Webm(c, d) => d \notin kept

\* An mp4 and a webm twin, the webm first in the input, of which the mp4 is
\* returned.
C4_Witness ==
    /\ Reconciled
    /\ \E c, d \in AudioVideoCandidates(data.formats) :
        /\ TwinsMp4Webm(c, d)
        /\ c \in Range(reconciled)
        /\ \E i, j \in 1..Len(data.formats) :
            /\ i < j
            /\ data.formats[i].url = d.url
            /\ data.formats[j].url = c.url

\* C10: with video-only formats and no format with audio among the usable
\* raw formats, the returned list is not empty and holds the video-only
\* formats marked _video_only, at most one per height.
C10_SilentVideoFallback ==
    (Reconciled /\ VideoOnly(data.formats) # <<>> /\ ~HasAnyAudio(data.formats)) =>
        /\ reconciled # <<>>
        /\ \A e \in Range(reconciled) : has_video(e) /\ e._video_only
        /\ \A i, j \in 1..Len(reconciled) :
            DedupHeight(reconciled[i]) = DedupHeight(reconciled[j]) => i = j

\* An audio-only entry of the returned list.
IsAudioOnly(e) == ~has_video(e) /\ has_audio(e)

\* C11: the returned list has at most one video format per height value and
\* at most one audio-only format; the video formats come first, in
\* non-increasing order of quality score, and the audio-only format, when
\* there is one, is the last element.
C11_OnePerHeightAudioLast ==
    Reconciled =>
        /\ \A i \in 1..Len(reconciled) :
                has_video(reconciled[i]) \/ IsAudioOnly(reconciled[i])
        /\ \A i, j \in 1..Len(reconciled) :
                (/\ i < j
                 /\ has_video(reconciled[i])
                 /\ has_video(reconciled[j])) =>
                    /\ reconciled[i].height # reconciled[j].height
                    /\ get_format_quality_score(reconciled[i])
                         >= get_format_quality_score(reconciled[j])
        /\ \A i \in 1..Len(reconciled) :
                IsAudioOnly(reconciled[i]) => i = Len(reconciled)

\* Two videos of different heights followed by the audio-only format, from
\* an input that lists the audio first and the lower video before the
\* higher one.
C11_Witness ==
    /\ Reconciled
    /\ Len(reconciled) = 3
    /\ has_video(reconciled[1]) /\ has_video(reconciled[2])
    /\ IsAudioOnly(reconciled[3])
    /\ Len(data.formats) = 3
    /\ data.formats[1].url = reconciled[3].url
    /\ data.formats[2].url = reconciled[2].url
    /\ data.formats[3].url = reconciled[1].url

\* C12: the entries made by pairing a video-only stream with separate audio
\* do not get the bonus of the combined formats, and when a combined raw
\* format and such an entry have the same height, the format returned for
\* that height is the combined one.
C12_CombinedBeatsMerged ==
    Reconciled =>
        /\ \A m \in Range(MergedFormats(data.formats)) :
                get_format_quality_score(m) < 100000
        /\ \A e \in Range(reconciled) :
                e._needs_merge =>
                    \A c \in Range(Combined(data.formats)) :
                        DedupHeight(c) # DedupHeight(e)

\* C13: for a record that is no playlist, has no formats list and has a
\* top-level url, the record transform_single returns has exactly one
\* format, whose url is that url.
C13_ImplicitFormat ==
    (/\ Transformed
     /\ data._type # "playlist"
     /\ data.formats = <<>>
     /\ Truthy(data.url)) =>
        /\ Len(record.formats) = 1
        /\ record.formats[1].url = data.url

(***************************************************************************)
(* Inputs of the sanitizer.                                                *)
(***************************************************************************)
Titles == UNION {[1..n -> TitleChars] : n \in 0..MaxTitleLen}
LenArgs == 0..MaxLenArg


InitSanitize ==
    /\ pc = "input"
    /\ title \in Titles
    /\ max_length \in LenArgs
    /\ clean = <<>>
    /\ data = IdleData
    /\ reconciled = <<>>
    /\ record = <<>>
    /\ argv = <<>>
    /\ tool = IdleTool
    /\ stdout = <<>>
    /\ exit_code = NoneNum

Sanitize ==
    /\ pc = "input"
    /\ clean' = sanitize_filename(title, max_length)
    /\ pc' = "sanitize_filename"
    /\ UNCHANGED <<title, max_length, data, reconciled, record,
                   argv, tool, stdout, exit_code>>

NextSanitize == Sanitize

SpecSanitize == InitSanitize /\ [][NextSanitize]_vars

Sanitized == pc = "sanitize_filename"

EdgeChars == {"_", ".", " "}

\* The title becomes empty at some step of the function.
BecomesEmpty(t, n) ==
    \/ t = <<>>
    \/ AsciiText(t) = <<>>
    \/ RemoveInvalid(AsciiText(t)) = <<>>
    \/ Stripped(t) = <<>>
    \/ Truncated(t, n) = <<>>

\* C5: for every title and every max_length the returned string is not
\* empty and holds none of \ / : * ? " < > | and no control character; a
\* title that is empty, or becomes empty at any step, returns "download".
C5_SafeNonEmpty ==
    Sanitized =>
        /\ clean # <<>>
        /\ \A i \in 1..Len(clean) : clean[i] \notin InvalidChars
        /\ BecomesEmpty(title, max_length) => clean = Download

\* A title holding an invalid character and a control character of which
\* something is left.
C5_Witness ==
    /\ Sanitized
    /\ \E i \in 1..Len(title) : title[i] = "/"
    /\ \E i \in 1..Len(title) : title[i] = "U+0001"
    /\ clean # Download

\* C6: the returned string neither starts nor ends with an underscore, a dot
\* or a space, also when it was cut at max_length.
C6_NoEdgeChars ==
    Sanitized =>
        /\ clean # <<>>
        /\ clean[1] \notin EdgeChars
        /\ clean[Len(clean)] \notin EdgeChars

\* C7 as stated: for every positive max_length the returned string is at
\* most max_length long, the "download" fallback included.
C7_LengthAtMostMax ==
    (Sanitized /\ max_length > 0) => Len(clean) <= max_length

\* C7 as amended: for every positive max_length the returned string is at
\* most max_length long unless it is the fallback "download".
C7_LengthAtMostMaxOrFallback ==
    (Sanitized /\ max_length > 0) =>
        (clean = Download \/ Len(clean) <= max_length)

\* A title longer than max_length after cleaning, cut to exactly max_length.
C7_Witness ==
    /\ Sanitized
    /\ max_length > 0
    /\ Len(Stripped(title)) > max_length
    /\ Len(clean) = max_length

(***************************************************************************)
(* The command line: URL inspection, extract_with_ytdlp and main.  A url   *)
(* is modelled already split: href is the string, name the last path        *)
(* segment without its extension, ext the extension get_extension_from_url *)
(* finds (None when there is none).                                        *)
(***************************************************************************)
ARCHIVE_EXTENSIONS == {"zip", "rar", "7z"}
DOCUMENT_EXTENSIONS == {"pdf", "txt"}
VIDEO_EXTENSIONS == {"mp4", "mkv", "webm"}
ALL_DIRECT_EXTENSIONS ==
    ARCHIVE_EXTENSIONS \cup DOCUMENT_EXTENSIONS \cup VIDEO_EXTENSIONS

get_file_category(ext) ==
    IF ext \in ARCHIVE_EXTENSIONS THEN "archive"
    ELSE IF ext \in DOCUMENT_EXTENSIONS THEN "document"
    ELSE IF ext \in VIDEO_EXTENSIONS THEN "video"
    ELSE "file"

get_extension_from_url(url) == url.ext

extract_filename_from_url(url) ==
    IF url.ext = None THEN url.name ELSE url.name \o <<".", url.ext>>

is_direct_download_url(url) ==
    get_extension_from_url(url) # None
    /\ get_extension_from_url(url) \in ALL_DIRECT_EXTENSIONS

\* Lines 229-268.
create_direct_download_result(url) ==
    LET ext == IF get_extension_from_url(url) # None
               THEN get_extension_from_url(url) ELSE "bin"
        category == get_file_category(ext)
        clean_name == sanitize_filename(url.name, DefaultMaxLength)
        fmt == [url |-> url.href, protocol |-> "https", ext |-> ext,
                format |-> <<category, "/", ext>>, _filename |-> clean_name]
    IN  [id |-> clean_name,
         title |-> clean_name,
         original_title |-> extract_filename_from_url(url),
         webpage_url |-> url.href,
         formats |-> <<IF category = "video"
                       THEN [video_ext |-> ext] @@ fmt ELSE fmt>>,
         category |-> category,
         direct_download |-> TRUE]

\* The structured error every failure path returns.
ErrorResultUnderscore(msg) == [_error |-> msg]
ErrorResult(msg) == [error |-> msg]

\* A line of the tool's output: blank, text that is no JSON, a JSON value
\* that is no object, or a JSON object (value is the parsed dictionary).
IsBlank(line) == line.kind = "blank"
Parses(line) == line.kind \in {"value", "object"}

\* result.stdout.strip() is empty.
OutputEmpty(lines) == \A i \in 1..Len(lines) : IsBlank(lines[i])

\* Lines 326-335: the lines that json.loads accepts, in order.
JsonObjectsFirstOnly(lines) ==
    IF SelectSeq(lines, Parses) = <<>> THEN <<>>
    ELSE <<SelectSeq(lines, Parses)[1]>>
JsonObjects(lines) == SelectSeq(lines, Parses)

\* The title transform_playlist has after the items up to the i-th.
RECURSIVE PlaylistTitle(_, _)
PlaylistTitle(items, i) ==
    IF i = 0 THEN PlaylistText
    ELSE LET before == PlaylistTitle(items, i - 1)
             item == items[i].value
         IN  IF ~TruthyText(before) \/ before = PlaylistText
             THEN IF item.playlist_title # NoText THEN item.playlist_title
                  ELSE IF item.playlist # NoText THEN item.playlist
                  ELSE PlaylistText
             ELSE before

PlaylistEntries(items) ==
    [i \in 1..Len(items) |->
        [_type |-> "url",
         url |-> IF items[i].value.webpage_url # None
                 THEN items[i].value.webpage_url
                 ELSE IF items[i].value.url # None THEN items[i].value.url ELSE "",
         title |-> IF items[i].value.title = NoText
                   THEN UnknownText ELSE items[i].value.title,
         duration |-> NoneNum]]

\* The first item the loop of transform_playlist stops at: a value that is
\* no dictionary (item.get raises) or a playlist record; 0 when there is none.
FirstStop(items) ==
    LET stops == {i \in 1..Len(items) :
                    \/ items[i].kind = "value"
                    \/ items[i].value._type = "playlist"}
    IN  IF stops = {} THEN 0
        ELSE CHOOSE i \in stops : \A j \in stops : i <= j

\* Lines 749-773, and the except clause of line 347 around its call.
transform_playlist(items, url) ==
    LET stop == FirstStop(items)
    IN  IF stop # 0 /\ items[stop].kind = "value"
        THEN ErrorResult("AttributeError")
        ELSE IF stop # 0
        THEN transform_playlist_info(items[stop].value)
        ELSE [_type |-> "playlist",
              title |-> PlaylistTitle(items, Len(items)),
              webpage_url |-> url.href,
              entries |-> PlaylistEntries(items)]

\* Lines 286-348.  run is what the tool does when it is started: found,
\* timeout, returncode, the lines of its standard output, stderr.
extract_with_ytdlp(url, playlist, run, version) ==
    IF ~run.found
    THEN ErrorResult("yt-dlp not found. Install it for media extraction support.")
    ELSE IF run.timeout
    THEN ErrorResult("Extraction timeout (120s)")
    ELSE IF run.returncode # 0 /\ OutputEmpty(run.lines)
    THEN ErrorResult(IF run.stderr # "" THEN run.stderr ELSE "Unknown error")
    ELSE IF OutputEmpty(run.lines)
    THEN ErrorResult("No data returned from yt-dlp")
    ELSE LET json_objects == JsonObjects(run.lines)
         IN  IF json_objects = <<>>
             THEN ErrorResult("Failed to parse yt-dlp output")
             ELSE IF Len(json_objects) = 1
             THEN IF json_objects[1].kind = "value"
                  THEN ErrorResult("AttributeError")
                  ELSE transform_single(json_objects[1].value, version)
             ELSE transform_playlist(json_objects, url)

\* Lines 793-801.
extract_info(url, playlist, run, version) ==
    IF is_direct_download_url(url)
    THEN create_direct_download_result(url)
    ELSE extract_with_ytdlp(url, playlist, run, version)

\* Lines 776-790.
analyze_url(url, run) ==
    LET result == [url |-> url.href,
                   is_direct |-> is_direct_download_url(url),
                   has_ytdlp |-> run.found,
                   extension |-> get_extension_from_url(url),
                   filename |-> extract_filename_from_url(url)]
    IN  IF is_direct_download_url(url)
        THEN [category |-> get_file_category(get_extension_from_url(url))] @@ result
        ELSE result

(***************************************************************************)
(* Inputs of main.                                                         *)
(***************************************************************************)
DirectUrl == [href |-> "https://host/archive.zip",
              name |-> <<"a", "r", "c", "h", "i", "v", "e">>, ext |-> "zip"]
PageUrl == [href |-> "https://host/watch",
            name |-> <<"w", "a", "t", "c", "h">>, ext |-> None]
Urls == {DirectUrl, PageUrl}

Commands == {"analyze", "extract", "playlist", "check", "download"}

\* sys.argv: the program name alone, with a command, with a command and a url.
ArgLists ==
    {<<"croxz_bridge.py">>, <<"croxz_bridge.py", "extract">>}
    \cup {<<"croxz_bridge.py", c, u>> : c \in Commands, u \in Urls}

OneCombined ==
    WithUrls(<<RawFormat("u", "mp4", "avc1", "mp4a", 360, NoneNum, NoneNum, NoneNum, None)>>)

\* The dictionaries the tool prints: items of a list with, without and with
\* a null playlist_title, an item naming its playlist only in the playlist
\* key and having no format, and a playlist record.
ItemRecord(webpage_url, playlist_title, playlist, formats) ==
    [RecordWithFormats(formats) EXCEPT !.webpage_url = webpage_url,
                                       !.playlist_title = playlist_title,
                                       !.playlist = playlist]

PlaylistRecord ==
    [RecordWithFormats(<<>>) EXCEPT
        !._type = "playlist",
        !.title = NoText,
        !.entries = <<[url |-> "e1", webpage_url |-> None, title |-> <<"a">>],
                      [url |-> None, webpage_url |-> "e2", title |-> NoText]>>]

ToolObjects ==
    {ItemRecord("page1", <<"T", "1">>, NoText, OneCombined),
     ItemRecord("page2", NoText, NoText, OneCombined),
     ItemRecord("page3", NullText, NoText, OneCombined),
     ItemRecord("page4", NoText, <<"P", "1">>, <<>>),
     PlaylistRecord}

ToolLines ==
    {[kind |-> k, value |-> IdleData] : k \in {"blank", "noise", "value"}}
    \cup {[kind |-> "object", value |-> o] : o \in ToolObjects}

ToolRuns ==
    {IdleTool, [IdleTool EXCEPT !.found = TRUE, !.timeout = TRUE]}
    \cup {[found |-> TRUE, timeout |-> FALSE, returncode |-> rc,
           lines |-> ls, stderr |-> err] :
            rc \in {0, 1},
            ls \in UNION {[1..n -> ToolLines] : n \in 0..MaxLines},
            err \in {"", "ERROR: Unsupported URL"}}

InitMain ==
    /\ pc = "input"
    /\ argv \in ArgLists
    /\ tool \in ToolRuns
    /\ stdout = <<>>
    /\ exit_code = NoneNum
    /\ title = <<>>
    /\ max_length = DefaultMaxLength
    /\ clean = <<>>
    /\ data = IdleData
    /\ reconciled = <<>>
    /\ record = <<>>

\* print(json.dumps(value)) followed by the end of the process.
PrintAndExit(value, code) ==
    /\ stdout' = Append(stdout, value)
    /\ exit_code' = code
    /\ pc' = "main"
    /\ UNCHANGED <<title, max_length, clean, data, reconciled, record, argv, tool>>

\* Lines 805-807.
MainUsage ==
    /\ pc = "input"
    /\ Len(argv) < 3
    /\ PrintAndExit(ErrorResult("Usage: croxz_bridge.py <command> <url>"), 1)

\* Lines 812-814.
MainAnalyze ==
    /\ pc = "input"
    /\ Len(argv) >= 3
    /\ argv[2] = "analyze"
    /\ PrintAndExit(analyze_url(argv[3], tool), 0)

\* Lines 815-817.
MainExtract ==
    /\ pc = "input"
    /\ Len(argv) >= 3
    /\ argv[2] = "extract"
    /\ \E version \in Versions :
        PrintAndExit(extract_info(argv[3], FALSE, tool, version), 0)

\* Lines 818-820.
MainPlaylist ==
    /\ pc = "input"
    /\ Len(argv) >= 3
    /\ argv[2] = "playlist"
    /\ \E version \in Versions :
        PrintAndExit(extract_info(argv[3], TRUE, tool, version), 0)

\* Lines 821-824.
MainCheck ==
    /\ pc = "input"
    /\ Len(argv) >= 3
    /\ argv[2] = "check"
    /\ PrintAndExit([supported |-> is_direct_download_url(argv[3]) \/ tool.found,
                     is_direct |-> is_direct_download_url(argv[3])], 0)

\* Lines 825-827.
MainUnknown ==
    /\ pc = "input"
    /\ Len(argv) >= 3
    /\ argv[2] \notin {"analyze", "extract", "playlist", "check"}
    /\ PrintAndExit(ErrorResult("Unknown command"), 1)

NextMain ==
    \/ MainUsage
    \/ MainAnalyze
    \/ MainExtract
    \/ MainPlaylist
    \/ MainCheck
    \/ MainUnknown

SpecMain == InitMain /\ [][NextMain]_vars

MainDone == pc = "main"

KnownCommands == {"analyze", "extract", "playlist", "check"}

\* The anticipated failures of the external tool: not found, timed out, a
\* non-zero exit with empty output, no output line that parses as JSON.
ToolFailure(run) ==
    \/ ~run.found
    \/ run.timeout
    \/ run.returncode # 0 /\ OutputEmpty(run.lines)
    \/ JsonObjects(run.lines) = <<>>

OneErrorObjectExitZero ==
    /\ Len(stdout) = 1
    /\ "error" \in DOMAIN stdout[1]
    /\ exit_code = 0

ExitCodeNonZeroIffBadArguments ==
    (exit_code # 0) <=> (Len(argv) < 3 \/ argv[2] \notin KnownCommands)

PlaylistTitleOf(item) ==
    IF TruthyText(item.playlist_title) THEN item.playlist_title
    ELSE IF TruthyText(item.playlist) THEN item.playlist
    ELSE NoText

\* C9: when the tool printed n >= 2 records, none of playlist type, the
\* result is a playlist record with exactly n entries in the records' order
\* whose title is the first record's playlist title when it has one and
\* "Playlist" otherwise.
C9_PlaylistOfRecords ==
    LET items == JsonObjects(tool.lines)
    IN  (/\ MainDone
         /\ Len(argv) >= 3
         /\ argv[2] \in {"extract", "playlist"}
         /\ ~is_direct_download_url(argv[3])
         /\ tool.found /\ ~tool.timeout
         /\ Len(items) >= 2
         /\ \A i \in 1..Len(items) :
                items[i].kind = "object" /\ items[i].value._type # "playlist")
        => /\ Len(stdout) = 1
           /\ "entries" \in DOMAIN stdout[1]
           /\ stdout[1]._type = "playlist"
           /\ Len(stdout[1].entries) = Len(items)
           /\ \A i \in 1..Len(items) :
                stdout[1].entries[i].url = items[i].value.webpage_url
           /\ stdout[1].title =
                IF PlaylistTitleOf(items[1].value) # NoText
                THEN PlaylistTitleOf(items[1].value)
                ELSE PlaylistText

\* extract or playlist ran the tool: it was found, did not time out and
\* printed non-empty output.
ToolPrinted ==
    /\ MainDone
    /\ Len(argv) >= 3
    /\ argv[2] \in {"extract", "playlist"}
    /\ ~is_direct_download_url(argv[3])
    /\ tool.found /\ ~tool.timeout
    /\ ~OutputEmpty(tool.lines)

\* The output lines that parse as JSON, in order.
ParsedLines ==
    SelectSeq(tool.lines, LAMBDA l : l.kind \in {"value", "object"})

IsErrorObject(v) == DOMAIN v = {"error"}

\* The result is what the number of parsed lines says: none, a structured
\* error; one, the single-record transform of it; more, the playlist
\* transform over all of them in order; and no error while a line parses.
ResultFromParsedLines ==
    /\ Len(stdout) = 1
    /\ Len(ParsedLines) = 0 => IsErrorObject(stdout[1])
    /\ Len(ParsedLines) = 1 =>
            \E version \in Versions :
                stdout[1] = transform_single(ParsedLines[1].value, version)
    /\ Len(ParsedLines) > 1 =>
            stdout[1] = transform_playlist(ParsedLines, argv[3])
    /\ Len(ParsedLines) >= 1 => ~IsErrorObject(stdout[1])

====
